---- MODULE Spec2Model ----
(***************************************************************************)
(* Keyframe extraction (keyframe_extractor_core_base.py) as a state        *)
(* machine: the orchestrator (extract_keyframes_with_fallback,             *)
(* extract_keyframes), the content-driven smart extractor, the uniform,    *)
(* interval and minimal extractors, and the is_dark kernel.                *)
(*                                                                         *)
(* Time is fixed-point: one tick is 1/TicksPerSecond second, standing for  *)
(* the source's floats.  Scores are integers in tenths of a point.         *)
(***************************************************************************)
EXTENDS Integers, Sequences, FiniteSets, TLC

\* ------------------------------------------------------------ bounds
MaxTotalFrames == 4
MaxMaxFrames == 4

\* --------------------------------------------------------- constants
TicksPerSecond == 1000000
SCENE_CHANGE_THRESHOLD == 35
QUALITY_WEIGHT == 4
CHANGE_WEIGHT == 6
MIN_INTERVAL == TicksPerSecond \div 2
MAX_INTERVAL == 3 * TicksPerSecond
InitialStep == TicksPerSecond \div 2
InitialBestScore == 0 - 10
NoTime == 0 - 1

Min(a, b) == IF a < b THEN a ELSE b
Max(a, b) == IF a > b THEN a ELSE b

\* f[lo] + ... + f[hi]
SumOver(f, lo, hi) ==
  LET acc[k \in (lo - 1)..hi] == IF k = lo - 1 THEN 0 ELSE acc[k - 1] + f[k]
  IN acc[hi]

\* ------------------------------------------------------------ frames
\* A frame is a 4x4 BGR image, row-major; NoFrame is a read miss / None.
NPix == 4 * 4
NoFrame == "none"

Uniform(v) == [px \in 1..NPix |-> <<v, v, v>>]
TwoTone(a, b, k) == [px \in 1..NPix |-> IF px <= k THEN <<a, a, a>> ELSE <<b, b, b>>]
Ramp(base, stride) == [px \in 1..NPix |-> LET v == base + (px - 1) * stride IN <<v, v, v>>]

\* The frames a video of the model is made of.
Kinds == {"black", "gray", "A", "B", "C"}
Image(k) ==
  CASE k = "black" -> Uniform(0)
    [] k = "gray" -> Uniform(128)
    [] k = "A" -> TwoTone(64, 192, 8)
    [] k = "B" -> TwoTone(80, 200, 6)
    [] k = "C" -> Ramp(40, 12)

\* cv2.cvtColor(frame, COLOR_BGR2GRAY) on 8-bit pixels: fixed-point Rec.601.
GrayOf(bgr) == (bgr[1] * 1868 + bgr[2] * 9617 + bgr[3] * 4899 + 8192) \div 16384
ToGray(img) == [px \in 1..NPix |-> GrayOf(img[px])]

\* numpy sums over the gray image.
CountEq(gray, v) == Cardinality({px \in 1..NPix : gray[px] = v})
CountBelow(gray, t) == Cardinality({px \in 1..NPix : gray[px] < t})
SumGray(gray) == SumOver(gray, 1, NPix)
SumSqGray(gray) == SumOver([px \in 1..NPix |-> gray[px] * gray[px]], 1, NPix)

\* -p*log2(p + 1e-7) for p = c/NPix, in millionths of a bit (float32 values).
EntropyTerm(c) ==
  CASE c = 0 -> 0 [] c = 1 -> 250000 [] c = 2 -> 375000 [] c = 3 -> 452819
    [] c = 4 -> 500000 [] c = 5 -> 524397 [] c = 6 -> 530639 [] c = 7 -> 521782
    [] c = 8 -> 500000 [] c = 9 -> 466917 [] c = 10 -> 423795 [] c = 11 -> 371641
    [] c = 12 -> 311278 [] c = 13 -> 243393 [] c = 14 -> 168564 [] c = 15 -> 87290
    [] c = 16 -> 0

\* cv2.calcHist over 256 bins, normalised; an empty bin adds 0 to the entropy,
\* so the sum runs over the bins that hold a pixel, each taken once (at the
\* first pixel of that value).
Entropy(gray) ==
  SumOver([px \in 1..NPix |->
             IF \A j \in 1..(px - 1) : gray[j] /= gray[px]
             THEN EntropyTerm(CountEq(gray, gray[px])) ELSE 0], 1, NPix)

\* The three disjuncts of is_dark, in integer arithmetic over the sums:
\*   mean < threshold           <=>  sum < threshold * n
\*   dark_ratio > 0.95          <=>  100 * count > 95 * n
\*   std < 10                   <=>  n * sumsq - sum^2 < 100 * n^2
MeanBelow(gray, threshold) == SumGray(gray) < threshold * NPix
DarkRatioAbove95(gray, threshold) ==
  100 * CountBelow(gray, threshold) > 95 * NPix
StdBelow10(gray) ==
  NPix * SumSqGray(gray) - SumGray(gray) * SumGray(gray) < 100 * NPix * NPix
EntropyBelow3(gray) == Entropy(gray) < 3000000

DarkRule_NoFlatClause(gray, threshold) ==
  MeanBelow(gray, threshold) \/ DarkRatioAbove95(gray, threshold)

DarkRule(gray, threshold) ==
  \/ MeanBelow(gray, threshold)
  \/ DarkRatioAbove95(gray, threshold)
  \/ (StdBelow10(gray) /\ EntropyBelow3(gray))

DefaultDarkThreshold == 35
is_dark_frame(img) == DarkRule(ToGray(img), DefaultDarkThreshold)

\* The frames of the catalogue that _is_dark_frame reports dark.
DarkKinds == {k \in Kinds : is_dark_frame(Image(k))}

\* ----------------------------------------------------- scoring kernels
\* _calculate_frame_quality / 5, capped at 100: one value per frame kind.
normalized_quality(f) ==
  CASE f = "A" -> 50 [] f = "B" -> 60 [] f = "C" -> 50 [] OTHER -> 0

\* _calculate_scene_change_score(prev, f) in [0, 100]: one value per pair.
scene_change_score(prev, f) ==
  CASE prev = f -> 0
    [] {prev, f} = {"A", "B"} -> 20
    [] {prev, f} = {"B", "C"} -> 30
    [] {prev, f} = {"A", "C"} -> 60
    [] OTHER -> 90

\* _calculate_comprehensive_score: (total in tenths, quality, change).
comprehensive_score(f, prev) ==
  LET q == normalized_quality(f)
      c == IF prev /= NoFrame THEN scene_change_score(prev, f) ELSE 0
  IN [total |-> QUALITY_WEIGHT * q + CHANGE_WEIGHT * c, quality |-> q, change |-> c]

\* _check_frame_similarity(last_gray, current_gray, threshold=0.8): symmetric,
\* reflexive, not transitive.
check_frame_similarity(a, b) == a = b \/ {a, b} = {"A", "B"}

\* -------------------------------------------------------------- state
VARIABLES
  entry, method, max_frames, total_frames, fps, openable, time_interval,
  progress_callback, sink_fails, footage, pattern,
  pc, mode, attempt, cap, exc, error_logged, calls, result,
  keyframe_paths, disk, used_filenames, progress,
  current_time, adaptive_step, has_active_second, active_second,
  best_second_frame, best_second_timestamp, best_second_score,
  best_second_quality, best_second_change,
  last_saved_frame, last_saved_timestamp,
  last_idx, last_read, committed, sampled, scored, sec_log, iterations,
  i, frame_idx, interval, frame_indices, seconds_interval, picked, read_missed,
  probe, probe_result

inputs == <<entry, method, max_frames, total_frames, fps, openable, time_interval,
            progress_callback, sink_fails, footage, pattern>>
ctl == <<pc, mode, attempt, cap, exc, error_logged, calls, result>>
outv == <<keyframe_paths, disk, used_filenames, progress>>
bestv == <<best_second_frame, best_second_timestamp, best_second_score,
           best_second_quality, best_second_change>>
lastv == <<last_saved_frame, last_saved_timestamp>>
stepv == <<current_time, adaptive_step, has_active_second, active_second>>
readv == <<last_idx, last_read, sampled, scored, sec_log, iterations>>
loopv == <<i, frame_idx, interval, frame_indices, seconds_interval, picked, read_missed>>
kernelv == <<probe, probe_result>>
vars == <<inputs, ctl, outv, bestv, lastv, stepv, readv, committed, loopv, kernelv>>

\* ------------------------------------------------------------ inputs
Methods == {"smart", "uniform", "interval"}
Entries == {"fallback", "direct", "minimal"}
FpsValues == {0, 1, 2, 300}
TimeIntervals == {NoTime, TicksPerSecond}
WriteOutcomes == {"ok", "false", "raise"}
\* What the progress sink does with the events it receives: it never raises, it
\* raises on every Progress event, or it raises on every event.
SinkFailures == {"never", "progress", "always"}

\* Values of the locals of _extract_content_driven_keyframes at lines 292-308.
SmartLocalsInit ==
  /\ current_time = 0
  /\ adaptive_step = InitialStep
  /\ has_active_second = FALSE
  /\ active_second = 0
  /\ best_second_frame = NoFrame
  /\ best_second_timestamp = NoTime
  /\ best_second_score = InitialBestScore
  /\ best_second_quality = 0
  /\ best_second_change = 0
  /\ last_saved_frame = NoFrame
  /\ last_saved_timestamp = 0 - TicksPerSecond
  /\ last_idx = 0 - 1
  /\ last_read = NoFrame
  /\ sampled = {}
  /\ scored = {}
  /\ sec_log = {}
  /\ iterations = 0
  /\ committed = <<>>

\* The locals of the uniform, interval and minimal extractors before they run.
LoopLocalsInit ==
  /\ i = 0
  /\ frame_idx = 0
  /\ interval = 1
  /\ frame_indices = <<>>
  /\ seconds_interval = [n |-> 0, d |-> 1]
  /\ picked = <<>>
  /\ read_missed = FALSE

Init ==
  /\ entry \in Entries
  /\ method \in (IF entry = "minimal" THEN {"smart"} ELSE Methods)
  /\ max_frames \in 1..MaxMaxFrames
  /\ total_frames \in 0..MaxTotalFrames
  /\ fps \in FpsValues
  /\ openable \in BOOLEAN
  /\ time_interval \in (IF method = "interval" THEN TimeIntervals ELSE {NoTime})
  /\ progress_callback \in (IF method = "smart" /\ entry /= "minimal"
                            THEN BOOLEAN ELSE {FALSE})
  /\ sink_fails \in (IF progress_callback THEN SinkFailures ELSE {"never"})
  /\ footage = "free"
  /\ pattern = <<>>
  /\ pc = IF entry = "minimal" THEN "m_open" ELSE "ek_open"
  /\ mode = IF entry = "minimal" THEN "minimal" ELSE method
  /\ attempt = 1
  /\ cap = "none"
  /\ exc = "none"
  /\ error_logged = FALSE
  /\ calls = <<>>
  /\ result = <<>>
  /\ keyframe_paths = <<>>
  /\ disk = {}
  /\ used_filenames = {}
  /\ progress = <<>>
  /\ SmartLocalsInit
  /\ LoopLocalsInit
  /\ probe = <<>>
  /\ probe_result = "unset"

\* ------------------------------------------------------ frame reader
\* cap.set(POS_FRAMES, idx); cap.read(): a frame, or a miss (EOF, unreadable).
InRange(idx) == idx >= 0 /\ idx < total_frames
Readable(idx) == IF InRange(idx) THEN {TRUE, FALSE} ELSE {FALSE}
\* The smart extractor looks at the pixels: the same index reads the same frame.
\* Free footage is any frame or a miss; the footage "S2" is the video whose scene
\* alternates every 30 frames, every frame readable.
S2Frame(idx) == IF (idx \div 30) % 2 = 0 THEN "A" ELSE "C"
SmartReads(idx) ==
  IF ~InRange(idx) THEN {NoFrame}
  ELSE IF footage = "S2" THEN {S2Frame(idx)}
  ELSE IF footage = "periodic" THEN {pattern[(idx % Len(pattern)) + 1]}
  ELSE IF idx = last_idx THEN {last_read}
  ELSE Kinds \cup {NoFrame}

\* ------------------------------------------------------------- names
\* f"keyframe_{ord:03d}_{ts:.2f}s.jpg" plus the _v{counter} suffix (v = 0: none).
Name_NoOrdinal(ord, centis, v) == [ord |-> 0, ts |-> centis, v |-> v]

Name(ord, centis, v) == [ord |-> ord, ts |-> centis, v |-> v]
\* {timestamp:.2f} of a time in ticks, and of the quotient n / d.
Fmt2Ticks(t) == (t + (TicksPerSecond \div 200)) \div (TicksPerSecond \div 100)
Fmt2Ratio(n, d) == (200 * n + d) \div (2 * d)
RECURSIVE NextFree(_, _, _)
NextFree(base, used, counter) ==
  LET cand == [base EXCEPT !.v = counter]
  IN IF cand \in used THEN NextFree(base, used, counter + 1) ELSE cand
\* The while loop at 327-330 (and 454-457).
AllocName(base, used) == IF base \in used THEN NextFree(base, used, 1) ELSE base

\* cv2.imwrite: the file exists afterwards only when the write succeeded.
DiskAfter(name, wr) == IF wr = "ok" THEN disk \cup {name} ELSE disk

\* ------------------------------------------------- smart: the commit
\* len(keyframe_paths) < max_frames: the loop test and both commit guards.
BelowMax_OffByOne(n) == n <= max_frames

BelowMax(n) == n < max_frames

\* Lines 316-323: the candidate is dropped when it resembles the last saved frame.
SimilarToLast_Off(last, cand) == FALSE

SimilarToLast_NoGuard(last, cand) ==
  last = NoFrame \/ check_frame_similarity(last, cand)

SimilarToLast(last, cand) == last /= NoFrame /\ check_frame_similarity(last, cand)

\* Lines 359-362 and 402-405: the adaptive step after a commit / a scored frame.
StepAfterCommit_Uncapped(step, change) ==
  IF change > SCENE_CHANGE_THRESHOLD THEN MIN_INTERVAL ELSE (step * 15) \div 10

StepAfterCommit(step, change) ==
  IF change > SCENE_CHANGE_THRESHOLD THEN MIN_INTERVAL
  ELSE Min(MAX_INTERVAL, (step * 15) \div 10)
StepAfterScore_AlwaysMax(step, change) == MAX_INTERVAL

StepAfterScore(step, change) ==
  IF change > SCENE_CHANGE_THRESHOLD THEN MIN_INTERVAL
  ELSE Min(MAX_INTERVAL, (step * 12) \div 10)

\* duration = total_frames / fps if fps > 0 else 0, in ticks.
Duration == IF fps > 0 THEN (total_frames * TicksPerSecond) \div fps ELSE 0

\* Line 344: min(1.0, best_second_timestamp / duration) if duration > 0 else 0.0,
\* in hundredths.
CoverageOne == 100
Coverage(ts, dur) ==
  IF dur > 0 THEN Min(CoverageOne, (ts * CoverageOne) \div dur) ELSE 0

\* Lines 343-356: the dict handed to progress_callback after the append; n is
\* len(keyframe_paths) at that point.
ProgressEvent(path, n) ==
  [coverage |-> Coverage(best_second_timestamp, Duration),
   elapsed_seconds |-> best_second_timestamp,
   duration_seconds |-> Duration,
   saved_frames |-> n,
   max_frames |-> max_frames,
   new_frame_path |-> path,
   new_frame_timestamp |-> best_second_timestamp,
   change_score |-> best_second_change,
   quality_score |-> best_second_quality]

\* Line 339: if progress_callback.
EmitsProgress_Never(cb) == FALSE

EmitsProgress(cb) == cb

commitv == <<keyframe_paths, disk, used_filenames, progress, bestv, lastv,
             adaptive_step, committed, exc>>

\* Line 321: the return taken when the candidate resembles the last saved frame.
DropCandidate_StepsDown ==
  /\ adaptive_step' = StepAfterCommit(adaptive_step, best_second_change)
  /\ UNCHANGED <<keyframe_paths, disk, used_filenames, progress, bestv, lastv,
                 committed, exc>>

DropCandidate == UNCHANGED commitv

\* commit_best_of_second(); wr is what cv2.imwrite does if it is reached.
commit_best_of_second(wr) ==
  IF best_second_frame = NoFrame \/ best_second_timestamp = NoTime
  THEN UNCHANGED commitv
  ELSE IF SimilarToLast(last_saved_frame, best_second_frame)
  THEN DropCandidate
  ELSE
    LET base == Name(Len(keyframe_paths), Fmt2Ticks(best_second_timestamp), 0)
        name == AllocName(base, used_filenames)
    IN /\ used_filenames' = used_filenames \cup {name}
       /\ disk' = DiskAfter(name, wr)
       /\ IF wr = "raise"
          THEN /\ exc' = "pending"
               /\ UNCHANGED <<keyframe_paths, progress, bestv, lastv, adaptive_step,
                              committed>>
          ELSE /\ UNCHANGED exc
               /\ keyframe_paths' = Append(keyframe_paths, name)
               /\ last_saved_frame' = best_second_frame
               /\ last_saved_timestamp' = best_second_timestamp
               /\ committed' = Append(committed,
                     [frame |-> best_second_frame, ts |-> best_second_timestamp])
               /\ progress' = IF EmitsProgress(progress_callback)
                               THEN Append(progress,
                                      ProgressEvent(name, Len(keyframe_paths) + 1))
                               ELSE progress
               /\ adaptive_step' = StepAfterCommit(adaptive_step, best_second_change)
               /\ best_second_frame' = NoFrame
               /\ best_second_timestamp' = NoTime
               /\ best_second_score' = InitialBestScore
               /\ best_second_quality' = 0
               /\ best_second_change' = 0

\* -------------------------------------------------- smart: the loop
\* while current_time < duration and len(keyframe_paths) < max_frames
SmartLoop ==
  /\ pc = "s_loop"
  /\ IF current_time < Duration /\ BelowMax(Len(keyframe_paths))
     THEN pc' = "s_roll" /\ iterations' = iterations + 1
     ELSE pc' = "s_final" /\ UNCHANGED iterations
  /\ UNCHANGED <<inputs, kernelv, mode, attempt, cap, exc, error_logged, calls, result,
                 outv, bestv, lastv, stepv, last_idx, last_read, sampled, scored,
                 sec_log, committed, loopv>>

\* Line 379: elif cur_sec != active_second.
SecondChanged_Always(cur_sec, active) == TRUE

SecondChanged(cur_sec, active) == cur_sec /= active

\* Lines 375-382: the second rollover.
SmartRollover ==
  /\ pc = "s_roll"
  /\ LET cur_sec == current_time \div TicksPerSecond
     IN IF ~has_active_second
        THEN /\ active_second' = cur_sec
             /\ has_active_second' = TRUE
             /\ pc' = "s_read"
             /\ UNCHANGED <<commitv, sec_log>>
        ELSE IF SecondChanged(cur_sec, active_second)
        THEN /\ \E wr \in WriteOutcomes :
                  IF BelowMax(Len(keyframe_paths))
                  THEN commit_best_of_second(wr)
                  ELSE UNCHANGED commitv
             /\ IF exc' = "pending"
                THEN pc' = "ek_except" /\ UNCHANGED <<active_second, sec_log>>
                ELSE pc' = "s_read" /\ active_second' = cur_sec /\ sec_log' = {}
             /\ UNCHANGED has_active_second
        ELSE /\ pc' = "s_read"
             /\ UNCHANGED <<commitv, active_second, has_active_second, sec_log>>
  /\ UNCHANGED <<inputs, kernelv, mode, attempt, cap, error_logged, calls, result,
                 current_time, last_idx, last_read, sampled, scored, iterations,
                 loopv>>

\* Line 389: a dark frame is skipped before it is scored.
SkipDark_Off(f) == FALSE

SkipDark(f) == f \in DarkKinds

\* Line 396: if total_score > best_second_score.
Beats_OrEqual(total, best) == total >= best

Beats(total, best) == total > best

\* Lines 387 and 393: current_time += adaptive_step on a read miss and on a dark
\* frame.
AdvanceOnSkip_Stalls(t, step) == t

AdvanceOnSkip(t, step) == t + step

\* Lines 383-406: read, dark test, score, best-of-second, step.
SmartSample ==
  /\ pc = "s_read"
  /\ LET idx == (current_time * fps) \div TicksPerSecond
     IN \E f \in SmartReads(idx) :
          /\ last_idx' = idx
          /\ last_read' = f
          /\ sampled' = sampled \cup {f}
          /\ IF f = NoFrame
             THEN /\ current_time' = AdvanceOnSkip(current_time, adaptive_step)
                  /\ UNCHANGED <<bestv, adaptive_step, scored, sec_log>>
             ELSE IF SkipDark(f)
             THEN /\ current_time' = AdvanceOnSkip(current_time, adaptive_step)
                  /\ UNCHANGED <<bestv, adaptive_step, scored, sec_log>>
             ELSE LET sc == comprehensive_score(f, last_saved_frame)
                  IN /\ IF Beats(sc.total, best_second_score)
                        THEN /\ best_second_frame' = f
                             /\ best_second_timestamp' = current_time
                             /\ best_second_score' = sc.total
                             /\ best_second_quality' = sc.quality
                             /\ best_second_change' = sc.change
                        ELSE UNCHANGED bestv
                     /\ adaptive_step' = StepAfterScore(adaptive_step, sc.change)
                     /\ current_time' = current_time + adaptive_step'
                     /\ scored' = scored \cup {f}
                     /\ sec_log' = sec_log \cup {[ts |-> current_time, total |-> sc.total]}
  /\ pc' = "s_loop"
  /\ UNCHANGED <<inputs, kernelv, mode, attempt, cap, exc, error_logged, calls, result,
                 outv, lastv, has_active_second, active_second, committed, iterations,
                 loopv>>

\* Lines 407-410: the final commit, and the return to extract_keyframes.
SmartFinal ==
  /\ pc = "s_final"
  /\ \E wr \in WriteOutcomes :
       IF BelowMax(Len(keyframe_paths))
       THEN commit_best_of_second(wr)
       ELSE UNCHANGED commitv
  /\ pc' = IF exc' = "pending" THEN "ek_except" ELSE "ek_release"
  /\ UNCHANGED <<inputs, kernelv, mode, attempt, cap, error_logged, calls, result,
                 current_time, has_active_second, active_second, readv, loopv>>

\* ------------------------------------------------ extract_keyframes
smartlocals == <<bestv, lastv, stepv, readv, committed>>

\* Lines 292-308 again, as the assignment made when the extractor is entered.
SmartLocalsFresh ==
  /\ current_time' = 0
  /\ adaptive_step' = InitialStep
  /\ has_active_second' = FALSE
  /\ active_second' = 0
  /\ best_second_frame' = NoFrame
  /\ best_second_timestamp' = NoTime
  /\ best_second_score' = InitialBestScore
  /\ best_second_quality' = 0
  /\ best_second_change' = 0
  /\ last_saved_frame' = NoFrame
  /\ last_saved_timestamp' = 0 - TicksPerSecond
  /\ last_idx' = 0 - 1
  /\ last_read' = NoFrame
  /\ sampled' = {}
  /\ scored' = {}
  /\ sec_log' = {}
  /\ iterations' = 0
  /\ committed' = <<>>

\* Lines 103-107: makedirs, VideoCapture, isOpened.
EkOpen ==
  /\ pc = "ek_open"
  /\ calls' = Append(calls, mode)
  /\ IF openable
     THEN cap' = "open" /\ pc' = "ek_meta" /\ UNCHANGED exc
     ELSE exc' = "pending" /\ pc' = "ek_except" /\ UNCHANGED cap
  /\ UNCHANGED <<inputs, kernelv, mode, attempt, error_logged, result, outv, smartlocals, loopv>>

\* Lines 111-114: send_log hands {'log_message': ...} to the sink, unguarded: a
\* sink that raises on it raises out of send_log.
SendLogRaises == progress_callback /\ sink_fails = "always"

\* Lines 108-118: duration = total_frames / fps divides by a float; then the
\* first send_log.
EkMeta ==
  /\ pc = "ek_meta"
  /\ IF fps = 0 \/ SendLogRaises
     THEN exc' = "pending" /\ pc' = "ek_except"
     ELSE pc' = "ek_dispatch" /\ UNCHANGED exc
  /\ UNCHANGED <<inputs, kernelv, mode, attempt, cap, error_logged, calls, result, outv,
                 smartlocals, loopv>>

\* Lines 119-121 and 273-308.
EkSmart ==
  /\ pc = "ek_dispatch" /\ mode = "smart"
  /\ SmartLocalsFresh
  /\ keyframe_paths' = <<>>
  /\ used_filenames' = {}
  /\ pc' = "s_loop"
  /\ UNCHANGED <<inputs, kernelv, mode, attempt, cap, exc, error_logged, calls, result,
                 disk, progress, loopv>>

\* Line 438: interval = max(1, total_frames // max_frames).
UniformInterval_NoFloor(total, maxf) == total \div maxf

UniformInterval(total, maxf) == Max(1, total \div maxf)

\* Lines 122-125 and 437-440.
EkUniform ==
  /\ pc = "ek_dispatch" /\ mode = "uniform"
  /\ keyframe_paths' = <<>>
  /\ used_filenames' = {}
  /\ interval' = UniformInterval(total_frames, max_frames)
  /\ i' = 0
  /\ picked' = <<>>
  /\ read_missed' = FALSE
  /\ pc' = "u_loop"
  /\ UNCHANGED <<inputs, kernelv, mode, attempt, cap, exc, error_logged, calls, result,
                 disk, progress, smartlocals, frame_idx, frame_indices,
                 seconds_interval>>

RoundHalfEven(n, d) ==
  LET q == n \div d
      r == n % d
  IN IF 2 * r < d THEN q
     ELSE IF 2 * r > d THEN q + 1
     ELSE IF q % 2 = 0 THEN q ELSE q + 1

\* Lines 128-139: seconds_interval, as the fraction n / d of a second.
SecondsInterval_IgnoresLong(total, f, maxf, ti) ==
  IF ti /= NoTime THEN [n |-> ti, d |-> TicksPerSecond]
  ELSE IF maxf > 0 THEN [n |-> total, d |-> f * maxf]
  ELSE [n |-> 1, d |-> 1]

SecondsInterval(total, f, maxf, ti) ==
  IF total > 300 * f
  THEN LET computed == [n |-> total, d |-> 300 * f]
       IN IF ti /= NoTime
          THEN IF ti * computed.d >= computed.n * TicksPerSecond
               THEN [n |-> ti, d |-> TicksPerSecond] ELSE computed
          ELSE computed
  ELSE IF ti /= NoTime THEN [n |-> ti, d |-> TicksPerSecond]
  ELSE IF maxf > 0 THEN [n |-> total, d |-> f * maxf]
  ELSE [n |-> 1, d |-> 1]

\* Lines 140-143.
IntervalFrames(total, f, maxf, ti) ==
  IF f > 0
  THEN LET si == SecondsInterval(total, f, maxf, ti)
       IN Max(1, RoundHalfEven(si.n * f, si.d))
  ELSE IF maxf > 0 THEN Max(1, total \div maxf) ELSE 1

\* Lines 126-144 and 467-469.
EkInterval ==
  /\ pc = "ek_dispatch" /\ mode = "interval"
  /\ keyframe_paths' = <<>>
  /\ seconds_interval' = SecondsInterval(total_frames, fps, max_frames, time_interval)
  /\ interval' = IntervalFrames(total_frames, fps, max_frames, time_interval)
  /\ frame_idx' = 0
  /\ i' = 0
  /\ picked' = <<>>
  /\ read_missed' = FALSE
  /\ pc' = "i_loop"
  /\ UNCHANGED <<inputs, kernelv, mode, attempt, cap, exc, error_logged, calls, result,
                 disk, used_filenames, progress, smartlocals, frame_indices>>

\* Lines 145-149: the only release of the handle.
EkRelease ==
  /\ pc = "ek_release"
  /\ cap' = "released"
  /\ result' = keyframe_paths
  /\ pc' = "ek_ret"
  /\ UNCHANGED <<inputs, kernelv, mode, attempt, exc, error_logged, calls, outv,
                 smartlocals, loopv>>

\* Lines 150-152: every failure is logged and swallowed, [] is returned.
EkExcept ==
  /\ pc = "ek_except"
  /\ error_logged' = TRUE
  /\ exc' = "none"
  /\ result' = <<>>
  /\ pc' = "ek_ret"
  /\ UNCHANGED <<inputs, kernelv, mode, attempt, cap, calls, outv, smartlocals, loopv>>

\* A direct call of extract_keyframes returns to its caller.
EkReturn ==
  /\ pc = "ek_ret" /\ entry = "direct"
  /\ pc' = "done"
  /\ UNCHANGED <<inputs, kernelv, mode, attempt, cap, exc, error_logged, calls, result,
                 outv, smartlocals, loopv>>

\* Lines 48-57: extract_keyframes_with_fallback after a call of extract_keyframes.
\* The ladder steps only on an exception that leaves extract_keyframes.
Fallback ==
  /\ pc = "ek_ret" /\ entry = "fallback"
  /\ IF exc = "pending"
     THEN /\ exc' = "none"
          /\ attempt' = attempt + 1
          /\ IF attempt = 1
             THEN mode' = "interval" /\ pc' = "ek_open"
             ELSE mode' = "minimal" /\ pc' = "m_open"
     ELSE pc' = "done" /\ UNCHANGED <<exc, attempt, mode>>
  /\ UNCHANGED <<inputs, kernelv, cap, error_logged, calls, result, outv, smartlocals, loopv>>

\* ---------------------------------------- _extract_uniform_keyframes
\* Lines 441-463, one iteration of the for loop (or its end) per step.
UniformStep ==
  /\ pc = "u_loop"
  /\ IF i < max_frames /\ i * interval < total_frames
     THEN \E ret \in Readable(i * interval), wr \in WriteOutcomes :
            IF ret
            THEN LET base == Name(i, Fmt2Ratio(i * interval, fps), 0)
                     name == AllocName(base, used_filenames)
                 IN /\ used_filenames' = used_filenames \cup {name}
                    /\ disk' = DiskAfter(name, wr)
                    /\ IF wr = "raise"
                       THEN /\ exc' = "pending" /\ pc' = "ek_except"
                            /\ UNCHANGED <<keyframe_paths, i, picked>>
                       ELSE /\ keyframe_paths' = Append(keyframe_paths, name)
                            /\ picked' = Append(picked, i * interval)
                            /\ i' = i + 1
                            /\ UNCHANGED <<exc, pc>>
                    /\ UNCHANGED <<progress, read_missed>>
            ELSE /\ i' = i + 1
                 /\ read_missed' = TRUE
                 /\ UNCHANGED <<outv, exc, pc, picked>>
     ELSE /\ pc' = "ek_release"
          /\ UNCHANGED <<outv, exc, i, picked, read_missed>>
  /\ UNCHANGED <<inputs, kernelv, mode, attempt, cap, error_logged, calls, result,
                 smartlocals, frame_idx, interval, frame_indices, seconds_interval>>

\* --------------------------------------- _extract_interval_keyframes
\* Lines 470-483, one iteration of the while loop (or its end) per step;
\* i is saved_count.
IntervalStep ==
  /\ pc = "i_loop"
  /\ IF i < max_frames
     THEN \E ret \in Readable(frame_idx), wr \in WriteOutcomes :
            IF ~ret
            THEN /\ pc' = "ek_release"
                 /\ read_missed' = (read_missed \/ InRange(frame_idx))
                 /\ UNCHANGED <<keyframe_paths, disk, exc, i, frame_idx, picked>>
            ELSE LET name == Name(i, Fmt2Ratio(frame_idx, fps), 0)
                 IN /\ disk' = DiskAfter(name, wr)
                    /\ IF wr = "raise"
                       THEN /\ exc' = "pending" /\ pc' = "ek_except"
                            /\ UNCHANGED <<keyframe_paths, i, frame_idx, picked>>
                       ELSE /\ keyframe_paths' = Append(keyframe_paths, name)
                            /\ picked' = Append(picked, frame_idx)
                            /\ frame_idx' = frame_idx + interval
                            /\ i' = i + 1
                            /\ UNCHANGED <<exc, pc>>
                    /\ UNCHANGED read_missed
     ELSE /\ pc' = "ek_release"
          /\ UNCHANGED <<keyframe_paths, disk, exc, i, frame_idx, picked, read_missed>>
  /\ UNCHANGED <<inputs, kernelv, mode, attempt, cap, error_logged, calls, result,
                 used_filenames, progress, smartlocals, interval, frame_indices,
                 seconds_interval>>

\* ---------------------------------------- _extract_minimal_keyframes
Range(s) == {s[k] : k \in 1..Len(s)}

RECURSIVE SortedSeq(_)
SortedSeq(S) ==
  IF S = {} THEN <<>>
  ELSE LET m == CHOOSE x \in S : \A y \in S : x <= y
       IN <<m>> \o SortedSeq(S \ {m})

\* The loop at 78-81: for i in range(1, max_frames - 2).
RECURSIVE ExtraIndices_ClosedRange(_, _, _, _, _)
ExtraIndices_ClosedRange(list, k, maxf, stride, total) ==
  IF k > maxf - 2 THEN list
  ELSE LET idx == k * stride
       IN ExtraIndices_ClosedRange(IF idx \notin Range(list) /\ idx < total
                                   THEN Append(list, idx) ELSE list,
                                   k + 1, maxf, stride, total)

RECURSIVE ExtraIndices(_, _, _, _, _)
ExtraIndices(list, k, maxf, stride, total) ==
  IF k >= maxf - 2 THEN list
  ELSE LET idx == k * stride
       IN ExtraIndices(IF idx \notin Range(list) /\ idx < total
                       THEN Append(list, idx) ELSE list,
                       k + 1, maxf, stride, total)

\* Lines 69-82.
MinimalIndices_NoLastAnchor(total, maxf) ==
  LET l1 == IF maxf >= 1 THEN <<0>> ELSE <<>>
      l3 == IF maxf >= 3 THEN Append(l1, total \div 2) ELSE l1
      l4 == IF maxf > 3 THEN ExtraIndices(l3, 1, maxf, total \div maxf, total) ELSE l3
      sorted == SortedSeq(Range(l4))
  IN SubSeq(sorted, 1, Min(Len(sorted), maxf))

MinimalIndices(total, maxf) ==
  LET l1 == IF maxf >= 1 THEN <<0>> ELSE <<>>
      l2 == IF maxf >= 2 THEN Append(l1, total - 1) ELSE l1
      l3 == IF maxf >= 3 THEN Append(l2, total \div 2) ELSE l2
      l4 == IF maxf > 3 THEN ExtraIndices(l3, 1, maxf, total \div maxf, total) ELSE l3
      sorted == SortedSeq(Range(l4))
  IN SubSeq(sorted, 1, Min(Len(sorted), maxf))

\* Lines 61-82.
MinOpen ==
  /\ pc = "m_open"
  /\ calls' = Append(calls, "minimal")
  /\ keyframe_paths' = <<>>
  /\ IF openable
     THEN /\ cap' = "open"
          /\ frame_indices' = MinimalIndices(total_frames, max_frames)
          /\ i' = 0
          /\ pc' = "m_loop"
          /\ UNCHANGED result
     ELSE /\ result' = <<>>
          /\ pc' = "done"
          /\ UNCHANGED <<cap, frame_indices, i>>
  /\ picked' = <<>>
  /\ read_missed' = FALSE
  /\ UNCHANGED <<inputs, kernelv, mode, attempt, exc, error_logged, disk,
                 used_filenames, progress, smartlocals, frame_idx, interval,
                 seconds_interval>>

\* Lines 83-95, one iteration of the for loop (or the release and return).
MinStep ==
  /\ pc = "m_loop"
  /\ IF i < Len(frame_indices)
     THEN /\ UNCHANGED <<cap, result>>
          /\ \E ret \in Readable(frame_indices[i + 1]), wr \in WriteOutcomes :
               IF ret
               THEN LET idx == frame_indices[i + 1]
                        ts == IF fps > 0 THEN Fmt2Ratio(idx, fps) ELSE 100 * idx
                        name == Name(i, ts, 0)
                    IN /\ disk' = DiskAfter(name, wr)
                       /\ IF wr = "raise"
                          THEN /\ exc' = "pending" /\ pc' = "m_except"
                               /\ UNCHANGED <<keyframe_paths, i, picked>>
                          ELSE /\ keyframe_paths' = Append(keyframe_paths, name)
                               /\ picked' = Append(picked, idx)
                               /\ i' = i + 1
                               /\ UNCHANGED <<exc, pc>>
                       /\ UNCHANGED read_missed
               ELSE /\ i' = i + 1
                    /\ read_missed' = TRUE
                    /\ UNCHANGED <<keyframe_paths, disk, exc, pc, picked>>
     ELSE /\ cap' = "released"
          /\ result' = keyframe_paths
          /\ pc' = "done"
          /\ UNCHANGED <<keyframe_paths, disk, exc, i, picked, read_missed>>
  /\ UNCHANGED <<inputs, kernelv, mode, attempt, error_logged, calls,
                 used_filenames, progress, smartlocals, frame_idx, interval,
                 frame_indices, seconds_interval>>

\* Lines 96-98.
MinExcept ==
  /\ pc = "m_except"
  /\ exc' = "none"
  /\ result' = <<>>
  /\ pc' = "done"
  /\ UNCHANGED <<inputs, kernelv, mode, attempt, cap, error_logged, calls, outv,
                 smartlocals, loopv>>

\* ------------------------------------------------------ specification
MaxSelTotal == 100
MaxSelMax == 6

Next ==
  \/ EkOpen \/ EkMeta \/ EkSmart \/ EkUniform \/ EkInterval
  \/ SmartLoop \/ SmartRollover \/ SmartSample \/ SmartFinal
  \/ UniformStep \/ IntervalStep
  \/ EkRelease \/ EkExcept \/ EkReturn \/ Fallback
  \/ MinOpen \/ MinStep \/ MinExcept

Spec == Init /\ [][Next]_vars

\* --------------------------------------------- the is_dark kernel alone
UniformBGR(b, g, r) == [k \in 1..NPix |-> <<b, g, r>>]
GrayLevels == {0, 20, 34, 35, 64, 128, 200, 255}
ProbeFrames ==
  {Uniform(v) : v \in GrayLevels}
  \cup {TwoTone(a, b, k) : a \in {0, 30, 64, 120}, b \in {40, 128, 192}, k \in {1, 8, 15}}
  \cup {Ramp(base, stride) : base \in {0, 40, 100}, stride \in {1, 2, 12}}
  \cup {UniformBGR(255, 0, 0), UniformBGR(0, 255, 0), UniformBGR(0, 0, 255)}

InitDark ==
  /\ entry = "direct" /\ method = "smart" /\ max_frames = 1 /\ total_frames = 0
  /\ fps = 0 /\ openable = FALSE /\ time_interval = NoTime
  /\ progress_callback = FALSE /\ sink_fails = "never"
  /\ footage = "free" /\ pattern = <<>>
  /\ pc = "kernel" /\ mode = "smart" /\ attempt = 1 /\ cap = "none" /\ exc = "none"
  /\ error_logged = FALSE /\ calls = <<>> /\ result = <<>>
  /\ keyframe_paths = <<>> /\ disk = {} /\ used_filenames = {} /\ progress = <<>>
  /\ SmartLocalsInit
  /\ LoopLocalsInit
  /\ probe \in ProbeFrames
  /\ probe_result = FALSE

\* _is_dark_frame(frame) with the default threshold.
IsDarkCall ==
  /\ pc = "kernel"
  /\ probe_result' = is_dark_frame(probe)
  /\ pc' = "kernel_done"
  /\ UNCHANGED <<inputs, probe, mode, attempt, cap, exc, error_logged, calls, result,
                 outv, smartlocals, loopv>>

NextDark == IsDarkCall

SpecDark == InitDark /\ [][NextDark]_vars

\* ------------------------------------- the minimal selection alone
\* _extract_minimal_keyframes up to the sorted index list, for larger videos.
InitMinimal ==
  /\ entry = "minimal" /\ method = "smart"
  /\ max_frames \in 1..MaxSelMax
  /\ total_frames \in 0..MaxSelTotal
  /\ fps = 1 /\ openable \in BOOLEAN /\ time_interval = NoTime
  /\ progress_callback = FALSE /\ sink_fails = "never"
  /\ footage = "free" /\ pattern = <<>>
  /\ pc = "m_open" /\ mode = "minimal" /\ attempt = 1 /\ cap = "none" /\ exc = "none"
  /\ error_logged = FALSE /\ calls = <<>> /\ result = <<>>
  /\ keyframe_paths = <<>> /\ disk = {} /\ used_filenames = {} /\ progress = <<>>
  /\ SmartLocalsInit
  /\ LoopLocalsInit
  /\ probe = <<>>
  /\ probe_result = FALSE

NextMinimal == MinOpen

SpecMinimal == InitMinimal /\ [][NextMinimal]_vars

\* ---------------------------------------- interval mode on long videos
\* extract_keyframes(method='interval') on videos shorter and longer than 300 s.
MaxIntervalFrames == 3
IntervalTotals == {0, 1, 2, 3, 5, 301, 400, 601, 800, 1202}
IntervalFps == {1, 2}
IntervalTimes == {NoTime, 0, TicksPerSecond \div 2, TicksPerSecond, 2 * TicksPerSecond}

InitInterval ==
  /\ entry = "direct" /\ method = "interval"
  /\ max_frames \in 1..MaxIntervalFrames
  /\ total_frames \in IntervalTotals
  /\ fps \in IntervalFps /\ openable = TRUE /\ time_interval \in IntervalTimes
  /\ progress_callback = FALSE /\ sink_fails = "never"
  /\ footage = "free" /\ pattern = <<>>
  /\ pc = "ek_open" /\ mode = "interval" /\ attempt = 1 /\ cap = "none" /\ exc = "none"
  /\ error_logged = FALSE /\ calls = <<>> /\ result = <<>>
  /\ keyframe_paths = <<>> /\ disk = {} /\ used_filenames = {} /\ progress = <<>>
  /\ SmartLocalsInit
  /\ LoopLocalsInit
  /\ probe = <<>>
  /\ probe_result = FALSE

NextInterval ==
  \/ EkOpen \/ EkMeta \/ EkInterval \/ IntervalStep
  \/ EkRelease \/ EkExcept \/ EkReturn

SpecInterval == InitInterval /\ [][NextInterval]_vars

\* ------------------------------- the smart extractor on the footage S2
\* extract_keyframes(method='smart', max_frames=100) on 300 frames at 30 fps
\* whose scene alternates every second.
InitS2 ==
  /\ entry = "direct" /\ method = "smart"
  /\ max_frames = 100 /\ total_frames = 300 /\ fps = 30
  /\ openable = TRUE /\ time_interval = NoTime
  /\ progress_callback \in BOOLEAN
  /\ sink_fails \in (IF progress_callback THEN SinkFailures ELSE {"never"})
  /\ footage = "S2" /\ pattern = <<>>
  /\ pc = "ek_open" /\ mode = "smart" /\ attempt = 1 /\ cap = "none" /\ exc = "none"
  /\ error_logged = FALSE /\ calls = <<>> /\ result = <<>>
  /\ keyframe_paths = <<>> /\ disk = {} /\ used_filenames = {} /\ progress = <<>>
  /\ SmartLocalsInit
  /\ LoopLocalsInit
  /\ probe = <<>>
  /\ probe_result = FALSE

NextS2 ==
  \/ EkOpen \/ EkMeta \/ EkSmart
  \/ SmartLoop \/ SmartRollover \/ SmartSample \/ SmartFinal
  \/ EkRelease \/ EkExcept \/ EkReturn

SpecS2 == InitS2 /\ [][NextS2]_vars

\* --------------------------- the smart extractor on longer periodic footage
\* extract_keyframes(method='smart') on a video of LongFrames frames whose frames
\* repeat with period 3 (each a lit frame, a dark frame or a read miss).
LongFrames == 14
MaxLongMax == 3
PatternFrames == {"black", "A", "B", "C", NoFrame}

InitLong ==
  /\ entry = "direct" /\ method = "smart"
  /\ max_frames \in 1..MaxLongMax /\ total_frames = LongFrames /\ fps \in {1, 2}
  /\ openable = TRUE /\ time_interval = NoTime
  /\ progress_callback = FALSE /\ sink_fails = "never"
  /\ footage = "periodic" /\ pattern \in [1..3 -> PatternFrames]
  /\ pc = "ek_open" /\ mode = "smart" /\ attempt = 1 /\ cap = "none" /\ exc = "none"
  /\ error_logged = FALSE /\ calls = <<>> /\ result = <<>>
  /\ keyframe_paths = <<>> /\ disk = {} /\ used_filenames = {} /\ progress = <<>>
  /\ SmartLocalsInit
  /\ LoopLocalsInit
  /\ probe = <<>>
  /\ probe_result = FALSE

NextLong ==
  \/ EkOpen \/ EkMeta \/ EkSmart
  \/ SmartLoop \/ SmartRollover \/ SmartSample \/ SmartFinal
  \/ EkRelease \/ EkExcept \/ EkReturn

SpecLong == InitLong /\ [][NextLong]_vars

\* The interpreter runs the call to its end: every step that can be taken is
\* taken eventually.
SpecLongFair == SpecLong /\ WF_vars(NextLong)

\* ============================================================ claims
Floor(t) == t \div TicksPerSecond

\* C1: with max_frames >= 1, in every mode the list of saved paths never holds
\* more than max_frames elements at any point of the call, and neither does the
\* list returned.
C1_AtMostMaxFrames ==
  /\ Len(keyframe_paths) <= max_frames
  /\ Len(result) <= max_frames

C1_Witness ==
  /\ pc = "done" /\ mode = "smart" /\ max_frames >= 2
  /\ Len(result) = max_frames

\* C2: in a smart run the committed timestamps are strictly increasing in commit
\* order and no two of them fall in the same integer second.
C2_OnePerSecond ==
  \A a, b \in 1..Len(committed) :
    a < b => /\ committed[a].ts < committed[b].ts
             /\ Floor(committed[a].ts) /= Floor(committed[b].ts)

C2_Witness ==
  /\ Len(committed) >= 2
  /\ "black" \in sampled /\ NoFrame \in sampled

\* C3: in a smart run no committed frame is similar (threshold 0.8) to the frame
\* committed just before it.
C3_NoSimilarNeighbours ==
  \A k \in 2..Len(committed) :
    ~check_frame_similarity(committed[k - 1].frame, committed[k].frame)

\* A second commit made after a similar candidate was offered in between.
C3_Witness ==
  /\ Len(committed) >= 2
  /\ \E f \in scored : /\ f /= committed[1].frame
                       /\ check_frame_similarity(committed[1].frame, f)

\* C4: retry ladder: whenever the smart extraction fails under
\* extract_keyframes_with_fallback, the interval extraction is run next (and
\* minimal after a failing interval).
C4_LadderSteps ==
  (pc = "done" /\ entry = "fallback" /\ method = "smart" /\ error_logged)
    => (Len(calls) >= 2 /\ calls[2] = "interval")

\* C5: no extraction call returns with its video handle still open.
C5_HandleReleased == pc = "done" => cap /= "open"

\* C6: a video reporting fps == 0 or total_frames == 0 is tolerated by
\* extract_keyframes in every mode: empty result, no failure taken as the exit
\* path, nothing written.
C6_ZeroMetaTolerated ==
  (pc = "done" /\ entry = "direct" /\ openable /\ (fps = 0 \/ total_frames = 0))
    => (~error_logged /\ result = <<>> /\ disk = {})

\* C7: when a JPEG write fails only that frame is dropped: every path in the
\* returned list is a file that was written.
C7_ReturnedPathsWritten ==
  pc = "done" => \A k \in 1..Len(result) : result[k] \in disk

\* C8: every second rollover of the smart extractor leaves the best-of-second
\* buffer empty, whether the candidate was written or dropped by the similarity
\* filter.
C8_RolloverEmptiesBuffer ==
  [][(/\ pc = "s_roll" /\ has_active_second
      /\ Floor(current_time) /= active_second
      /\ pc' = "s_read") => best_second_frame' = NoFrame]_vars

\* C9: in smart mode a dark frame is never scored, never the best-of-second
\* candidate and never committed; when every sampled frame is dark the result is
\* empty.
AllSampledDark == sampled \subseteq DarkKinds \cup {NoFrame}

C9_DarkNeverKept ==
  /\ scored \cap DarkKinds = {}
  /\ best_second_frame \notin DarkKinds
  /\ \A k \in 1..Len(committed) : committed[k].frame \notin DarkKinds
  /\ (mode = "smart" /\ AllSampledDark) => (keyframe_paths = <<>> /\ result = <<>>)

C9_Witness ==
  /\ pc = "done" /\ mode = "smart" /\ ~error_logged
  /\ sampled = {"black"} /\ last_idx >= 1
  /\ result = <<>>

\* C10 as stated: is_dark is true for an all-black frame and false for a uniform
\* mid-gray frame.
C10_Original ==
  pc = "kernel_done" =>
    /\ (probe = Uniform(0) => probe_result = TRUE)
    /\ (probe = Uniform(128) => probe_result = FALSE)

\* C10 amended: is_dark is true for an all-black frame and also true for a
\* uniform mid-gray frame (standard deviation 0 < 10 and entropy 0 < 3.0); a
\* mid-gray frame with spread (half 64, half 192) is not dark.
C10_UniformFramesDark ==
  pc = "kernel_done" =>
    /\ (probe = Uniform(0) => probe_result = TRUE)
    /\ (probe = Uniform(128) => probe_result = TRUE)
    /\ (probe = TwoTone(64, 192, 8) => probe_result = FALSE)

C10_Witness == pc = "kernel_done" /\ probe = Uniform(128) /\ probe_result = TRUE

\* C11: within one extraction call, in any mode, no two paths appended to the
\* result have the same basename.
C11_UniqueBasenames ==
  /\ \A a, b \in 1..Len(keyframe_paths) :
       a /= b => keyframe_paths[a] /= keyframe_paths[b]
  /\ \A a, b \in 1..Len(result) : a /= b => result[a] /= result[b]

\* Two paths of one call carrying the same formatted timestamp.
C11_Witness ==
  /\ Len(keyframe_paths) >= 2
  /\ keyframe_paths[1].ts = keyframe_paths[2].ts

\* C12: in smart mode with a progress sink every commit emits exactly one
\* Progress event, after the path was appended, and no Progress event is emitted
\* without a commit (none for a candidate dropped by the similarity filter, none
\* without a sink): the k-th event carries saved_frames = k, the k-th saved path,
\* that commit's timestamp and a coverage in [0, 1].
C12_ProgressPerCommit ==
  mode = "smart" =>
    /\ Len(committed) = Len(keyframe_paths)
    /\ Len(progress) = (IF progress_callback THEN Len(committed) ELSE 0)
    /\ \A k \in 1..Len(progress) :
         /\ progress[k].saved_frames = k
         /\ progress[k].new_frame_path = keyframe_paths[k]
         /\ progress[k].new_frame_timestamp = committed[k].ts
         /\ progress[k].coverage >= 0
         /\ progress[k].coverage <= CoverageOne
    /\ (pc = "done" /\ cap = "released") =>
         \A k \in 1..Len(progress) : progress[k].new_frame_path = result[k]

C12_Witness ==
  /\ pc = "done" /\ mode = "smart" /\ progress_callback
  /\ Len(progress) >= 2 /\ Len(result) = Len(progress)
  /\ \E f \in scored : /\ f \notin {committed[k].frame : k \in 1..Len(committed)}
                       /\ check_frame_similarity(committed[1].frame, f)

\* The index list built from 0, total-1 (max_frames >= 2), total \div 2
\* (max_frames >= 3) and k * (total \div maxf) for k in 1..hi (max_frames > 3):
\* deduplicated, sorted, truncated to maxf entries.
AnchorSet(total, maxf, hi) ==
  {0} \cup (IF maxf >= 2 THEN {total - 1} ELSE {})
      \cup (IF maxf >= 3 THEN {total \div 2} ELSE {})
      \cup (IF maxf > 3 THEN {k * (total \div maxf) : k \in 1..hi} ELSE {})
SelectionOf(S, maxf) ==
  LET sorted == SortedSeq(S) IN SubSeq(sorted, 1, Min(Len(sorted), maxf))

\* C13 as stated: the minimal extractor selects the sorted, deduplicated,
\* truncated list with k * (total_frames // max_frames) for every k in
\* [1, max_frames - 2].
C13_Original ==
  (pc = "m_loop" /\ total_frames >= 1) =>
    frame_indices =
      SelectionOf(AnchorSet(total_frames, max_frames, max_frames - 2), max_frames)

\* C13 amended: the same list with k * (total_frames // max_frames) for every k
\* in [1, max_frames - 3] (range(1, max_frames - 2) excludes its upper end).
C13_MinimalSelection ==
  (pc = "m_loop" /\ total_frames >= 1) =>
    frame_indices =
      SelectionOf(AnchorSet(total_frames, max_frames, max_frames - 3), max_frames)

\* A selection on which the two readings differ.
C13_Witness ==
  /\ pc = "m_loop" /\ total_frames = 6 /\ max_frames = 4
  /\ frame_indices = <<0, 1, 3, 5>>

\* C14: for total_frames = 100 and max_frames = 5 the minimal extractor selects
\* (and so reads) exactly the indices 0, 20, 40, 50, 99; for total_frames >= 1
\* and max_frames >= 2 the selection always contains 0 and total_frames - 1, and
\* every selected index lies in [0, total_frames - 1].
C14_Anchors ==
  (pc = "m_loop" /\ total_frames >= 1 /\ max_frames >= 2) =>
    /\ 0 \in Range(frame_indices)
    /\ (total_frames - 1) \in Range(frame_indices)
    /\ \A k \in 1..Len(frame_indices) :
         frame_indices[k] >= 0 /\ frame_indices[k] <= total_frames - 1
    /\ (total_frames = 100 /\ max_frames = 5) =>
         frame_indices = <<0, 20, 40, 50, 99>>

C14_Witness ==
  /\ pc = "m_loop" /\ total_frames = 100 /\ max_frames = 5
  /\ Len(frame_indices) = 5 /\ frame_indices[5] = 99

\* C15: uniform mode, total_frames >= 1, every index below total_frames
\* readable: with interval = max(1, total_frames // max_frames) the frames
\* appended are those at 0, interval, 2 * interval, ... in that order,
\* min(max_frames, total_frames) of them, and as many files are written when the
\* writes succeed (180 frames and max_frames = 6 give interval 30, indices
\* 0, 30, ..., 150).
C15_UniformPicks ==
  /\ UniformInterval(180, 6) = 30
  /\ \A k \in 0..5 : k * UniformInterval(180, 6) < 180
  /\ (/\ pc = "done" /\ mode = "uniform" /\ cap = "released"
      /\ total_frames >= 1 /\ ~read_missed) =>
       /\ interval = Max(1, total_frames \div max_frames)
       /\ Len(picked) = Min(max_frames, total_frames)
       /\ \A k \in 1..Len(picked) : picked[k] = (k - 1) * interval
       /\ Len(result) = Len(picked)
       /\ (\A k \in 1..Len(result) : result[k] \in disk) =>
            Cardinality(disk) = Min(max_frames, total_frames)

C15_Witness ==
  /\ pc = "done" /\ mode = "uniform" /\ cap = "released" /\ ~read_missed
  /\ total_frames = 4 /\ max_frames = 2
  /\ picked = <<0, 2>>
  /\ \A k \in 1..Len(result) : result[k] \in disk

\* Fractions n / d (d > 0) of a second.
RatEq(a, b) == a = b \/ a.n * b.d = b.n * a.d
RatMax(a, b) == IF a.n * b.d < b.n * a.d THEN b ELSE a
UserInterval == [n |-> time_interval, d |-> TicksPerSecond]
UserIntervalOrZero == IF time_interval = NoTime THEN [n |-> 0, d |-> 1] ELSE UserInterval
DurationOver(k) == [n |-> total_frames, d |-> k * fps]
\* The interval extractor has been entered (and has not failed).
IntervalEntered ==
  mode = "interval" /\ cap /= "none" /\ pc \in {"i_loop", "ek_release", "ek_ret", "done"}

\* C16: interval mode: seconds_interval is max(user_time_interval or 0,
\* duration/300) when duration > 300 s, otherwise user_time_interval if provided,
\* else duration/max_frames (400/300 for a 400 s video without a time interval);
\* interval_frames = max(1, round(seconds_interval * fps)) >= 1; the frames
\* appended are those at 0, interval_frames, 2 * interval_frames, ... in that
\* order, and the extractor stops at the first read miss or after max_frames
\* frames.
C16_IntervalPlan ==
  IntervalEntered =>
    /\ RatEq(seconds_interval,
             IF total_frames > 300 * fps
             THEN RatMax(UserIntervalOrZero, DurationOver(300))
             ELSE IF time_interval /= NoTime THEN UserInterval
             ELSE DurationOver(max_frames))
    /\ (total_frames = 400 * fps /\ time_interval = NoTime) =>
         RatEq(seconds_interval, [n |-> 400, d |-> 300])
    /\ interval = Max(1, RoundHalfEven(seconds_interval.n * fps, seconds_interval.d))
    /\ interval >= 1
    /\ \A k \in 1..Len(picked) : picked[k] = (k - 1) * interval
    /\ Len(keyframe_paths) = Len(picked)
    /\ (pc = "done" /\ cap = "released") =>
         /\ Len(result) = Len(picked)
         /\ \/ Len(picked) = max_frames
            \/ read_missed
            \/ ~InRange(Len(picked) * interval)

C16_Witness ==
  /\ pc = "done" /\ mode = "interval" /\ cap = "released"
  /\ total_frames = 601 /\ fps = 1 /\ time_interval = 2 * TicksPerSecond
  /\ interval = 2 /\ picked = <<0, 2, 4>>

\* C17: scenario S2: on a 10 s, 30 fps video whose scene alternates every second
\* (no dark frame, different scenes change by more than SCENE_CHANGE_THRESHOLD
\* and are not similar, frames of one scene score equally) a smart run with
\* max_frames = 100 makes exactly 10 commits, the k-th in second k - 1.
C17_ScenarioS2 ==
  /\ \A k \in 1..Len(committed) : Floor(committed[k].ts) = k - 1
  /\ (pc = "done" /\ cap = "released") =>
       (Len(committed) = 10 /\ Len(result) = 10)

C17_Witness ==
  /\ pc = "done" /\ cap = "released" /\ footage = "S2"
  /\ Len(result) = 10
  /\ \A k \in 1..10 : result[k] \in disk
  /\ Floor(committed[10].ts) = 9

\* A commit attempt (at a second rollover or after the loop) whose candidate
\* resembles the last saved frame.
SimilarityRejects ==
  /\ mode = "smart"
  /\ \/ pc = "s_roll" /\ has_active_second /\ Floor(current_time) /= active_second
     \/ pc = "s_final"
  /\ Len(keyframe_paths) < max_frames
  /\ best_second_frame /= NoFrame /\ best_second_timestamp /= NoTime
  /\ last_saved_frame /= NoFrame
  /\ check_frame_similarity(last_saved_frame, best_second_frame)

\* C18: a commit attempt rejected by the similarity filter changes nothing of the
\* output state: the saved list, used_names, the last saved frame and its
\* timestamp and adaptive_step stay as they are, no file is written and no
\* progress event is emitted.
C18_DropIsNoOp ==
  [][SimilarityRejects =>
       UNCHANGED <<keyframe_paths, used_filenames, last_saved_frame,
                   last_saved_timestamp, adaptive_step, disk, progress, committed>>]_vars

\* The state right after a rejected attempt at a rollover: the sink is there, a
\* frame was saved before, and the rejected candidate is still held.
C18_Witness ==
  /\ pc = "s_read" /\ mode = "smart" /\ progress_callback
  /\ Len(committed) >= 1 /\ Len(progress) = Len(committed)
  /\ best_second_frame /= NoFrame
  /\ Floor(best_second_timestamp) < active_second
  /\ check_frame_similarity(last_saved_frame, best_second_frame)

\* C19: best-of-second: a frame that is committed was scored in the second it
\* is committed for, its total score is at least the total of every other
\* non-dark frame sampled in that integer second, and among equal totals it is
\* the earliest sampled one.
C19_BestOfSecond ==
  [][(Len(committed') = Len(committed) + 1) =>
       /\ [ts |-> best_second_timestamp, total |-> best_second_score] \in sec_log
       /\ \A e \in sec_log :
            Floor(e.ts) = Floor(best_second_timestamp) =>
              /\ best_second_score >= e.total
              /\ (e.total = best_second_score => best_second_timestamp <= e.ts)]_vars

\* After the final commit: the committed frame beat an earlier frame of its
\* second.
C19_Witness ==
  /\ pc = "ek_release" /\ mode = "smart" /\ Len(committed) >= 1
  /\ \E e1, e2 \in sec_log :
       /\ e2.ts = committed[Len(committed)].ts
       /\ e1.ts < e2.ts /\ e1.total < e2.total
       /\ Floor(e1.ts) = Floor(e2.ts)

\* C20: a best-of-second candidate lives for at most one second of video time:
\* whenever a candidate is held, the integer second of its timestamp is the
\* active second.
C20_CandidateInActiveSecond ==
  (mode = "smart" /\ has_active_second /\ best_second_frame /= NoFrame) =>
    Floor(best_second_timestamp) = active_second

\* The smart extractor is running (between its entry and its return).
InSmartLoop == mode = "smart" /\ pc \in {"s_loop", "s_roll", "s_read", "s_final"}
StepInRange(step) == step >= TicksPerSecond \div 2 /\ step <= 3 * TicksPerSecond
GrownStep(step, tenths) == Min(3 * TicksPerSecond, (step * tenths) \div 10)

\* C21: in a smart run adaptive_step always lies in [0.5 s, 3.0 s]: it starts at
\* 0.5, is set to 0.5 when the change of a scored frame or of a committed frame
\* exceeds SCENE_CHANGE_THRESHOLD, otherwise grows by 1.2 after a scored frame
\* and by 1.5 after a commit, capped at 3.0; a dark frame, a read miss and every
\* other step leave it unchanged.
C21_StepBounded ==
  [][/\ (pc = "ek_dispatch" /\ pc' = "s_loop") => adaptive_step' = TicksPerSecond \div 2
     /\ InSmartLoop =>
          /\ StepInRange(adaptive_step) /\ StepInRange(adaptive_step')
          /\ adaptive_step' =
               IF pc = "s_read"
               THEN IF last_read' = NoFrame \/ last_read' \in DarkKinds
                    THEN adaptive_step
                    ELSE IF comprehensive_score(last_read', last_saved_frame).change
                              > SCENE_CHANGE_THRESHOLD
                         THEN TicksPerSecond \div 2
                         ELSE GrownStep(adaptive_step, 12)
               ELSE IF Len(committed') = Len(committed) + 1
               THEN IF best_second_change > SCENE_CHANGE_THRESHOLD
                    THEN TicksPerSecond \div 2
                    ELSE GrownStep(adaptive_step, 15)
               ELSE adaptive_step]_vars

\* The cap has been applied, in a run that skipped a dark frame or a read miss
\* and committed a frame.
C21_Witness ==
  /\ InSmartLoop /\ adaptive_step = MAX_INTERVAL
  /\ sampled \cap {"black", NoFrame} /= {}
  /\ Len(committed) >= 1

CeilDiv(a, b) == (a + b - 1) \div b

\* C22: the smart loop terminates: every iteration, the read-miss and the
\* dark-frame paths included, moves current_time forward by at least
\* MIN_INTERVAL (0.5 s), so the loop makes at most ceil(duration / 0.5)
\* iterations, and the call then returns.
C22_LoopTerminates ==
  /\ [][(pc = "s_read" /\ pc' = "s_loop") =>
          current_time' >= current_time + (TicksPerSecond \div 2)]_vars
  /\ [](mode = "smart" => iterations <= CeilDiv(Duration, TicksPerSecond \div 2))
  /\ (pc = "s_loop" ~> pc = "done")

\* A run of as many iterations as the bound allows, all of them skips.
C22_Witness ==
  /\ pc = "done" /\ footage = "periodic"
  /\ iterations = CeilDiv(Duration, TicksPerSecond \div 2) /\ iterations > 0
  /\ sampled = {"black", NoFrame}

\* C23: a smart run with max_frames >= 1 and a duration above 0 returns a
\* non-empty list if and only if at least one sampled frame was readable and not
\* dark: the first candidate is never dropped by the similarity filter and is
\* committed at a rollover or by the final commit.
C23_NonEmptyIffLitFrame ==
  (pc = "done" /\ mode = "smart" /\ cap = "released" /\ total_frames >= 1) =>
    /\ (result /= <<>>) <=> (sampled \ (DarkKinds \cup {NoFrame}) /= {})
    /\ (result /= <<>>) => committed[1].frame \in sampled \ (DarkKinds \cup {NoFrame})

\* One frame out of a video that also showed a dark frame and a read miss.
C23_Witness ==
  /\ pc = "done" /\ mode = "smart" /\ cap = "released"
  /\ Len(result) = 1 /\ Cardinality(scored) = 1
  /\ "black" \in sampled /\ NoFrame \in sampled

\* A write raised: its name was reserved (line 331) and never appended (335).
WriteRaised == \E n \in used_filenames : n \notin Range(keyframe_paths)
\* The list a smart run on the footage S2 returns when its sink never fails and
\* no write raises: one path per second, at 0.00, 1.32, 2.32, ..., 9.32.
S2Result == [k \in 1..10 |-> Name(k - 1, IF k = 1 THEN 0 ELSE 100 * (k - 1) + 32, 0)]

\* C24: a progress sink that raises on the events it receives (Progress events
\* or log messages) does not change the list a smart extraction returns: the
\* result is the one of the same run with a sink that never fails.
C24_SinkFailureHarmless ==
  (pc = "done" /\ progress_callback /\ sink_fails /= "never" /\ ~WriteRaised) =>
    result = S2Result

====
